---------------------------- MODULE Spec2Model ----------------------------
(***************************************************************************)
(* A model of geniushubclient (src/geniushubclient/__init__.py): the       *)
(* Hub -> Zone -> Device entity graph built by GeniusHub.update(), the     *)
(* request/retry transport GeniusObject._request(), the v3 -> v1 schema    *)
(* conversion, and the zone commands set_mode / set_override.              *)
(*                                                                         *)
(* Python objects are heap cells: a Zone (Device) object is an index into  *)
(* zoneHeap (deviceHeap), and the maps of the Hub and of each Zone hold    *)
(* such indices, so that "the same instance" is equality of indices.       *)
(* An action is one step of a call: the code from the call's entry to the   *)
(* request it awaits, one way an attempt of a request ends, one turn of a  *)
(* for loop of update() over a list it fetched, or the end of such a loop. *)
(* The lists are not bounded: a loop takes any number of turns, each on    *)
(* any record of the domains below.                                        *)
(***************************************************************************)
EXTENDS Integers, Sequences, FiniteSets, TLC

(* --------------------------- value domains ----------------------------- *)
ZoneIds == {1, 2}
Names == {"A", "B"}
Modes == {"off", "timer"}
DeviceIds == {"2"}
\* Python's None as a zone name (assignedZones[0]['name'] of an unassigned device).
None == "None"
\* Python's None as an object reference (GeniusDevice.assignedZone).
NoZone == 0
\* The coroutines that may be calling into the client.
Flows == {1}

\* v1 records, as the elements of the GET zones / GET devices / GET issues lists.
ZoneDicts == [id : ZoneIds, name : Names, mode : Modes]
DeviceDicts == [id : DeviceIds, zname : Names \cup {None}]

\* v3 raw records.  A raw zone carries its devices ('nodes') and its issues
\* ('lstIssues'); a raw device names its zone in childValues.location.val
\* ("" when it has none) and "1" is a reserved address.  A raw zone may come
\* without its 'iMode'.
V3ZoneDicts == [iID : ZoneIds, strName : Names, iMode : {1, 2}]
               \cup [iID : ZoneIds, strName : Names]
V3Devices == [addr : DeviceIds \cup {"1"}, location : Names \cup {""}]

(* ------------------------------ dicts ---------------------------------- *)
\* d[k] = v on a Python dict.
Put(d, k, v) == [x \in (DOMAIN d) \cup {k} |-> IF x = k THEN v ELSE d[x]]
EmptyDict == <<>>
\* A Python str / int as a value of the JSON body of a request (json=data):
\* a string and a number are different values whatever they hold.
Str(s) == [str |-> s]
Num(n) == [num |-> n]

VARIABLES
    api_v1,      \* GeniusHubClient._api_v1
    hub,         \* the GeniusHub object's maps and lists
    zoneHeap,    \* the GeniusZone objects, by reference
    deviceHeap,  \* the GeniusDevice objects, by reference
    pc,          \* per flow: where its call stands ("idle": no call is running)
    attempt,     \* per flow: attempts made by the call's latest _request (0: none yet)
    sessions,    \* per flow: sessions the call's latest _request opened and has not closed
    call,        \* per flow: the running call and its arguments
    req,         \* per flow: the HTTP request last sent by the running call
    result,      \* per flow: how the call ended
    status,      \* per flow: response.status of the call's latest request (0: no
                 \* response yet)
    dirty,       \* per flow (history): the graph changed since the call began
    regular,     \* per flow (history): the running update() began on an empty graph
                 \* and no record so far repeated an id or a zone name of
                 \* its poll, every device record naming a zone of the poll
    lastZone,    \* per flow (history): the zone record the running call read last
    polledDev,   \* history: the latest record polled for each device id
    fnInput,     \* the conversion or extraction function applied and its argument
    fnOutput     \* what the function returned or raised

vars == <<api_v1, hub, zoneHeap, deviceHeap, pc, attempt, sessions, call, req,
          result, status, dirty, regular, lastZone, polledDev, fnInput, fnOutput>>

graph == <<hub, zoneHeap, deviceHeap>>
fn == <<fnInput, fnOutput>>
Graph == [hub |-> hub, zones |-> zoneHeap, devices |-> deviceHeap]

(* ------------------------- schema conversion --------------------------- *)
\* const.IMODE_TO_MODE (const.py is not among the sources: the table is the
\* specification's "off=1, timer=2, footprint=4, override=16").
IMODE_TO_MODE == (1 :> "off") @@ (2 :> "timer") @@ (4 :> "footprint") @@ (16 :> "override")

\* _convert_zone raises KeyError at IMODE_TO_MODE[input['iMode']]: the record
\* has no 'iMode', or the table has no such code.
ConvertZoneRaises(v1, input) ==
    IF v1 THEN FALSE
    ELSE IF "iMode" \notin DOMAIN input THEN TRUE
    ELSE input.iMode \notin DOMAIN IMODE_TO_MODE

\* GeniusObject._convert_zone: the v1 record of a zone.
ConvertZone(v1, input) ==
    IF v1 THEN input
    ELSE [id |-> input.iID, name |-> input.strName, mode |-> IMODE_TO_MODE[input.iMode]]

\* GeniusObject._convert_device: the v1 record of a device.
ConvertDevice(v1, input) ==
    IF v1 THEN input
    ELSE [id |-> input.addr,
          zname |-> IF input.location # "" THEN input.location ELSE None]

\* _extract_devices_from_zones keeps a node unless its address is reserved.
KeepsDevice(device) == device.addr \notin {"1", "WeatherData"}

(* --------------------------- the entity graph -------------------------- *)
\* Constructors: GeniusObject.__init__ merges the record into the object.
NewZone(zone_dict) ==
    [id |-> zone_dict.id, name |-> zone_dict.name, mode |-> zone_dict.mode,
     device_objs |-> <<>>, device_by_id |-> EmptyDict]

NewDevice(device_dict, zone) ==
    [id |-> device_dict.id, zname |-> device_dict.zname, assignedZone |-> zone]

\* A graph value G is [hub, zones, devices]: the three variables together.

\* Mutant of PopulateZone: a zone that is found is built and registered anew.
PopulateZoneAnew(G, zone_dict) ==
    LET zone == Len(G.zones) + 1
        obj == NewZone(zone_dict)
    IN [G EXCEPT !.zones = Append(@, obj),
                 !.hub.zone_objs = Append(@, zone),
                 !.hub.zone_by_id = Put(@, obj.id, zone),
                 !.hub.zone_by_name = Put(@, obj.name, zone)]

\* Mutant of PopulateZone: the zone is looked up by its name, not its id.
PopulateZoneByName(G, zone_dict) ==
    IF zone_dict.name \in DOMAIN G.hub.zone_by_name
    THEN G
    ELSE LET zone == Len(G.zones) + 1
             obj == NewZone(zone_dict)
         IN [G EXCEPT !.zones = Append(@, obj),
                      !.hub.zone_objs = Append(@, zone),
                      !.hub.zone_by_id = Put(@, obj.id, zone),
                      !.hub.zone_by_name = Put(@, obj.name, zone)]

\* update._populate_zone: find the zone by id, or create and register it.
PopulateZone(G, zone_dict) ==
    IF zone_dict.id \in DOMAIN G.hub.zone_by_id
    THEN G
    ELSE LET zone == Len(G.zones) + 1
             obj == NewZone(zone_dict)
         IN [G EXCEPT !.zones = Append(@, obj),
                      !.hub.zone_objs = Append(@, zone),
                      !.hub.zone_by_id = Put(@, obj.id, zone),
                      !.hub.zone_by_name = Put(@, obj.name, zone)]

\* Mutant of PopulateDeviceRaises: the name is looked up even when it is None.
PopulateDeviceRaisesOnNone(G, device_dict) ==
    device_dict.zname \notin DOMAIN G.hub.zone_by_name

\* update._populate_device raises KeyError at hub.zone_by_name[name].
PopulateDeviceRaises(G, device_dict) ==
    device_dict.zname # None /\ device_dict.zname \notin DOMAIN G.hub.zone_by_name

\* d without key k.
Without(d, k) == [x \in (DOMAIN d) \ {k} |-> d[x]]

\* Mutant of PopulateDevice: the device is registered with the Hub only.
PopulateDeviceHubOnly(G, device_dict) ==
    IF device_dict.id \in DOMAIN G.hub.device_by_id THEN G
    ELSE LET device == Len(G.devices) + 1
         IN [G EXCEPT !.devices = Append(@, NewDevice(device_dict, NoZone)),
                      !.hub.device_objs = Append(@, device),
                      !.hub.device_by_id = Put(@, device_dict.id, device)]

\* Mutant of PopulateDevice: a device that is found is first taken out of
\* every zone's map.
PopulateDeviceMoving(G, device_dict) ==
    LET name == device_dict.zname
        zone == IF name # None THEN G.hub.zone_by_name[name] ELSE NoZone
        known == device_dict.id \in DOMAIN G.hub.device_by_id
        device == IF known THEN G.hub.device_by_id[device_dict.id]
                  ELSE Len(G.devices) + 1
        G1 == IF known
              THEN [G EXCEPT !.zones = [z \in DOMAIN G.zones |->
                        [G.zones[z] EXCEPT
                            !.device_objs = SelectSeq(@, LAMBDA x : x # device),
                            !.device_by_id = Without(@, device_dict.id)]]]
              ELSE [G EXCEPT !.devices = Append(@, NewDevice(device_dict, zone)),
                             !.hub.device_objs = Append(@, device),
                             !.hub.device_by_id = Put(@, device_dict.id, device)]
    IN IF zone # NoZone
       THEN [G1 EXCEPT !.zones[zone].device_objs = Append(@, device),
                       !.zones[zone].device_by_id = Put(@, G1.devices[device].id, device)]
       ELSE G1

\* Mutant of PopulateDevice: the zone gets a Device object of its own.
PopulateDeviceCopying(G, device_dict) ==
    LET name == device_dict.zname
        zone == IF name # None THEN G.hub.zone_by_name[name] ELSE NoZone
        known == device_dict.id \in DOMAIN G.hub.device_by_id
        device == IF known THEN G.hub.device_by_id[device_dict.id]
                  ELSE Len(G.devices) + 1
        G1 == IF known THEN G
              ELSE [G EXCEPT !.devices = Append(@, NewDevice(device_dict, zone)),
                             !.hub.device_objs = Append(@, device),
                             !.hub.device_by_id = Put(@, device_dict.id, device)]
        copy == Len(G1.devices) + 1
    IN IF zone # NoZone /\ device_dict.id \notin DOMAIN G1.zones[zone].device_by_id
       THEN [G1 EXCEPT !.devices = Append(@, NewDevice(device_dict, zone)),
                       !.zones[zone].device_objs = Append(@, copy),
                       !.zones[zone].device_by_id = Put(@, device_dict.id, copy)]
       ELSE G1

\* Mutant of PopulateDevice: the device is appended to its zone's list each
\* time it is polled.
PopulateDeviceListing(G, device_dict) ==
    LET name == device_dict.zname
        zone == IF name # None THEN G.hub.zone_by_name[name] ELSE NoZone
        known == device_dict.id \in DOMAIN G.hub.device_by_id
        device == IF known THEN G.hub.device_by_id[device_dict.id]
                  ELSE Len(G.devices) + 1
        G1 == IF known THEN G
              ELSE [G EXCEPT !.devices = Append(@, NewDevice(device_dict, zone)),
                             !.hub.device_objs = Append(@, device),
                             !.hub.device_by_id = Put(@, device_dict.id, device)]
    IN IF zone # NoZone
       THEN [G1 EXCEPT !.zones[zone].device_objs = Append(@, device),
                       !.zones[zone].device_by_id = Put(@, G1.devices[device].id, device)]
       ELSE G1

\* update._populate_device (called by the Hub): find the device by id in the
\* Hub, or create and register it; then add it to its zone's map if the zone
\* does not hold it.
PopulateDevice(G, device_dict) ==
    LET name == device_dict.zname
        zone == IF name # None THEN G.hub.zone_by_name[name] ELSE NoZone
        known == device_dict.id \in DOMAIN G.hub.device_by_id
        device == IF known THEN G.hub.device_by_id[device_dict.id]
                  ELSE Len(G.devices) + 1
        G1 == IF known THEN G
              ELSE [G EXCEPT !.devices = Append(@, NewDevice(device_dict, zone)),
                             !.hub.device_objs = Append(@, device),
                             !.hub.device_by_id = Put(@, device_dict.id, device)]
    IN IF zone # NoZone /\ device_dict.id \notin DOMAIN G1.zones[zone].device_by_id
       THEN [G1 EXCEPT !.zones[zone].device_objs = Append(@, device),
                       !.zones[zone].device_by_id = Put(@, G1.devices[device].id, device)]
       ELSE G1

(* ------------------------------ requests ------------------------------- *)
NoCall == [op |-> "none", zone |-> NoZone, arg |-> <<>>]
NoRecord == [id |-> 0, name |-> "", mode |-> ""]
NoReq == [method |-> "", url |-> <<>>, body |-> <<>>]
HTTP_OK == 200
\* The statuses other than 200 the hub answers with.
NotOK == {401, 500}
\* A request is in flight.
Awaiting == {"zones", "devices", "issues", "zone", "command"}
\* A list has arrived and the for loop over it has not started.
Got == {"got_zones", "got_devices", "got_issues"}

\* The arguments callers pass.
ModeArgs == {"off", "timer", "footprint", "override", "bogus"}
DurationArgs == {-5, 3600}
SetpointArgs == {20, 99}

\* No function applied.
NoInput == [fn |-> "none"]
NoOutput == [done |-> FALSE]

\* The client, its Hub and the callers F after construction.
ConstructedFor(F) ==
    /\ api_v1 \in BOOLEAN
    /\ hub = [zone_objs |-> <<>>, zone_by_id |-> EmptyDict, zone_by_name |-> EmptyDict,
              device_objs |-> <<>>, device_by_id |-> EmptyDict]
    /\ zoneHeap = <<>>
    /\ deviceHeap = <<>>
    /\ pc = [f \in F |-> "idle"]
    /\ attempt = [f \in F |-> 0]
    /\ sessions = [f \in F |-> 0]
    /\ call = [f \in F |-> NoCall]
    /\ req = [f \in F |-> NoReq]
    /\ result = [f \in F |-> ""]
    /\ status = [f \in F |-> 0]
    /\ dirty = [f \in F |-> FALSE]
    /\ regular = [f \in F |-> FALSE]
    /\ lastZone = [f \in F |-> NoRecord]
    /\ polledDev = EmptyDict

Constructed == ConstructedFor(Flows)

Init == Constructed /\ fnInput = NoInput /\ fnOutput = NoOutput

\* _request(type, url, data) up to its first await: the first attempt is sent.
Send(f, stage, method, url, body) ==
    /\ pc' = [pc EXCEPT ![f] = stage]
    /\ attempt' = [attempt EXCEPT ![f] = 1]
    /\ sessions' = [sessions EXCEPT ![f] = 0]
    /\ req' = [req EXCEPT ![f] = [method |-> method, url |-> url, body |-> body]]
    /\ status' = [status EXCEPT ![f] = 0]
    /\ UNCHANGED result

\* The code goes on without a request.
Goto(f, stage) ==
    /\ pc' = [pc EXCEPT ![f] = stage]
    /\ UNCHANGED <<attempt, sessions, req, result, status>>

\* The call returns (err = "") or raises err to its caller.
Finish(f, err) ==
    /\ pc' = [pc EXCEPT ![f] = "done"]
    /\ result' = [result EXCEPT ![f] = IF err = "" THEN "ok" ELSE err]
    /\ UNCHANGED <<attempt, sessions, req>>

\* A caller makes its calls one at a time.
CanCall(f) == pc[f] = "idle"

SetGraph(f, G) ==
    /\ hub' = G.hub
    /\ zoneHeap' = G.zones
    /\ deviceHeap' = G.devices
    /\ dirty' = [dirty EXCEPT ![f] = @ \/ <<G.hub, G.zones, G.devices>> # graph]

(* ------------------------------- calls --------------------------------- *)
\* GeniusHub.update() up to its first await: GET zones.
HubUpdate(f) ==
    /\ CanCall(f)
    /\ call' = [call EXCEPT ![f] = [op |-> "update", zone |-> NoZone, arg |-> <<>>]]
    /\ regular' = [regular EXCEPT ![f] = zoneHeap = <<>> /\ deviceHeap = <<>>]
    /\ Send(f, "zones", "GET", <<"zones">>, <<>>)
    /\ UNCHANGED <<fn, api_v1, graph, dirty, lastZone, polledDev>>

\* GeniusZone.update() up to its first await: GET zones/{id} on v1; on v3 it
\* is the Hub's update.
ZoneUpdate(f, zone) ==
    /\ CanCall(f)
    /\ call' = [call EXCEPT ![f] = [op |-> "zone_update", zone |-> zone, arg |-> <<>>]]
    /\ IF api_v1
       THEN Send(f, "zone", "GET", <<"zones", zoneHeap[zone].id>>, <<>>)
       ELSE Send(f, "zones", "GET", <<"zones">>, <<>>)
    /\ UNCHANGED <<fn, api_v1, graph, dirty, regular, lastZone, polledDev>>

\* GeniusZone.set_mode(mode) up to its await.
SetMode(f, zone, mode) ==
    /\ CanCall(f)
    /\ call' = [call EXCEPT ![f] = [op |-> "set_mode", zone |-> zone, arg |-> <<mode>>]]
    /\ IF api_v1
       THEN Send(f, "command", "PUT", <<"zones", zoneHeap[zone].id, "mode">>, Str(mode))
       ELSE Send(f, "command", "PATCH", <<"zone", zoneHeap[zone].id>>,
                 [iMode |-> Str(mode)])
    /\ UNCHANGED <<fn, api_v1, graph, dirty, regular, lastZone, polledDev>>

\* GeniusZone.set_override(duration, setpoint) up to its await.
SetOverride(f, zone, duration, setpoint) ==
    /\ CanCall(f)
    /\ call' = [call EXCEPT ![f] =
                   [op |-> "set_override", zone |-> zone, arg |-> <<duration, setpoint>>]]
    /\ IF api_v1
       THEN Send(f, "command", "POST", <<"zones", zoneHeap[zone].id, "override">>,
                 [duration |-> Num(duration), setpoint |-> Num(setpoint)])
       ELSE Send(f, "command", "PATCH", <<"zone", zoneHeap[zone].id>>,
                 [iMode |-> Num(16), iBoostTimeRemaining |-> Num(duration),
                  fBoostSP |-> Num(setpoint)])
    /\ UNCHANGED <<fn, api_v1, graph, dirty, regular, lastZone, polledDev>>

\* The caller takes the result; the flow can make its next call.
Return(f) ==
    /\ pc[f] = "done"
    /\ pc' = [pc EXCEPT ![f] = "idle"]
    /\ call' = [call EXCEPT ![f] = NoCall]
    /\ req' = [req EXCEPT ![f] = NoReq]
    /\ attempt' = [attempt EXCEPT ![f] = 0]
    /\ result' = [result EXCEPT ![f] = ""]
    /\ status' = [status EXCEPT ![f] = 0]
    /\ dirty' = [dirty EXCEPT ![f] = FALSE]
    /\ regular' = [regular EXCEPT ![f] = FALSE]
    /\ sessions' = [sessions EXCEPT ![f] = 0]
    /\ lastZone' = [lastZone EXCEPT ![f] = NoRecord]
    /\ UNCHANGED <<fn, api_v1, graph, polledDev>>

(* ---------------------- _request: how an attempt ends ------------------ *)
\* Mutant of Non200: the status is not looked at and the call returns.
Non200Accepted(f) ==
    /\ pc[f] \in Awaiting
    /\ \E code \in NotOK : status' = [status EXCEPT ![f] = code]
    /\ Finish(f, "")
    /\ UNCHANGED <<fn, api_v1, graph, call, dirty, regular, lastZone, polledDev>>

\* assert response.status == HTTP_OK fails: AssertionError is not caught.
Non200(f) ==
    /\ pc[f] \in Awaiting
    /\ \E code \in NotOK : status' = [status EXCEPT ![f] = code]
    /\ Finish(f, "AssertionError")
    /\ UNCHANGED <<fn, api_v1, graph, call, dirty, regular, lastZone, polledDev>>

\* Mutant of ServerDisconnected: the handler retries as long as the
\* connection is dropped.
ServerDisconnectedLoop(f) ==
    /\ pc[f] \in Awaiting
    /\ attempt' = [attempt EXCEPT ![f] = @ + 1]
    /\ sessions' = [sessions EXCEPT ![f] = @ + 1]
    /\ UNCHANGED <<pc, req, result, status>>
    /\ UNCHANGED <<fn, api_v1, graph, call, dirty, regular, lastZone, polledDev>>

\* The connection is dropped.  On the first attempt the handler opens a
\* session and sends the request again; in the handler nothing catches it.
ServerDisconnected(f) ==
    /\ pc[f] \in Awaiting
    /\ \/ /\ attempt[f] = 1
          /\ attempt' = [attempt EXCEPT ![f] = 2]
          /\ sessions' = [sessions EXCEPT ![f] = @ + 1]
          /\ UNCHANGED <<pc, req, result>>
       \/ /\ attempt[f] = 2
          /\ Finish(f, "ServerDisconnectedError")
    /\ UNCHANGED <<fn, status, api_v1, graph, call, dirty, regular, lastZone, polledDev>>

\* Any other failure of the attempt (the timeout, a refused connection).
OtherError(f) ==
    /\ pc[f] \in Awaiting
    /\ Finish(f, "ClientError")
    /\ UNCHANGED <<fn, status, api_v1, graph, call, dirty, regular, lastZone, polledDev>>

(* ------------------- update(): the three for loops --------------------- *)
\* A list request answers 200: _get_zones / _get_devices / _get_issues has
\* its list (hub._zones_raw, ...).
ListResponse(f) ==
    /\ pc[f] \in {"zones", "devices", "issues"}
    /\ pc' = [pc EXCEPT ![f] = CASE pc[f] = "zones" -> "got_zones"
                                 [] pc[f] = "devices" -> "got_devices"
                                 [] OTHER -> "got_issues"]
    /\ status' = [status EXCEPT ![f] = HTTP_OK]
    /\ UNCHANGED <<attempt, sessions, req, result>>
    /\ UNCHANGED <<fn, api_v1, graph, call, dirty, regular, lastZone, polledDev>>

\* The list is empty: the _get_* property logs element [0] of it
\* (lines 445, 482, 508), which raises IndexError.
EmptyList(f) ==
    /\ pc[f] \in Got
    /\ Finish(f, "IndexError")
    /\ UNCHANGED <<fn, status, api_v1, graph, call, dirty, regular, lastZone, polledDev>>

\* One turn of "for z in await self._get_zones": the next element is z.
ZoneRecord(f, z) ==
    /\ pc[f] \in {"got_zones", "in_zones"}
    /\ IF ConvertZoneRaises(api_v1, z)
       THEN /\ Finish(f, "KeyError")
            /\ UNCHANGED <<status, graph, dirty, regular, lastZone>>
       ELSE LET zone_dict == ConvertZone(api_v1, z)
            IN /\ SetGraph(f, PopulateZone(Graph, zone_dict))
               /\ Goto(f, "in_zones")
               /\ lastZone' = [lastZone EXCEPT ![f] = zone_dict]
               /\ regular' = [regular EXCEPT ![f] =
                                 /\ @
                                 /\ zone_dict.id \notin DOMAIN hub.zone_by_id
                                 /\ zone_dict.name \notin DOMAIN hub.zone_by_name]
    /\ UNCHANGED <<fn, api_v1, call, polledDev>>

\* The zones loop ends: await self._get_devices, which on v1 sends GET
\* devices and on v3 takes the devices from the zones just read.
ZonesEnd(f) ==
    /\ pc[f] = "in_zones"
    /\ IF api_v1 THEN Send(f, "devices", "GET", <<"devices">>, <<>>)
       ELSE Goto(f, "got_devices")
    /\ UNCHANGED <<fn, api_v1, graph, call, dirty, regular, lastZone, polledDev>>

\* One turn of "for d in await self._get_devices": the next element is d.  On
\* v3 the list holds the zones' nodes that _extract_devices_from_zones keeps.
DeviceRecord(f, d) ==
    /\ pc[f] \in {"got_devices", "in_devices"}
    /\ IF api_v1 THEN TRUE ELSE KeepsDevice(d)
    /\ LET device_dict == ConvertDevice(api_v1, d)
       IN /\ polledDev' = Put(polledDev, device_dict.id, device_dict)
          /\ IF PopulateDeviceRaises(Graph, device_dict)
             THEN /\ Finish(f, "KeyError")
                  /\ UNCHANGED <<status, graph, dirty, regular>>
             ELSE /\ SetGraph(f, PopulateDevice(Graph, device_dict))
                  /\ Goto(f, "in_devices")
                  /\ regular' = [regular EXCEPT ![f] =
                                    /\ @
                                    /\ device_dict.id \notin DOMAIN hub.device_by_id
                                    /\ device_dict.zname # None]
    /\ UNCHANGED <<fn, api_v1, call, lastZone>>

\* Mutant of DevicesEnd: after the devices the zones are gone through again.
DevicesEndToZones(f) ==
    /\ pc[f] = "in_devices"
    /\ Goto(f, "got_zones")
    /\ UNCHANGED <<fn, api_v1, graph, call, dirty, regular, lastZone, polledDev>>

\* The devices loop ends: await self._get_issues, which on v1 sends GET
\* issues and on v3 takes the issues from the zones.
DevicesEnd(f) ==
    /\ pc[f] = "in_devices"
    /\ IF api_v1 THEN Send(f, "issues", "GET", <<"issues">>, <<>>)
       ELSE Goto(f, "got_issues")
    /\ UNCHANGED <<fn, api_v1, graph, call, dirty, regular, lastZone, polledDev>>

\* One turn of "for i in await self._get_issues": _populate_issue keeps nothing.
IssueRecord(f) ==
    /\ pc[f] \in {"got_issues", "in_issues"}
    /\ Goto(f, "in_issues")
    /\ UNCHANGED <<fn, api_v1, graph, call, dirty, regular, lastZone, polledDev>>

\* The issues loop ends and update() returns.
IssuesEnd(f) ==
    /\ pc[f] = "in_issues"
    /\ Finish(f, "")
    /\ UNCHANGED <<fn, status, api_v1, graph, call, dirty, regular, lastZone, polledDev>>

(* ------------------ the other calls: their response -------------------- *)
\* v1 Zone.update(): GET zones/{id} answers 200 with the zone's record, and
\* self.__dict__.update(data) merges it into the Zone object.
ZoneResponse(f, data) ==
    /\ pc[f] = "zone"
    /\ data.id = zoneHeap[call[f].zone].id
    /\ SetGraph(f, [Graph EXCEPT !.zones[call[f].zone].name = data.name,
                                 !.zones[call[f].zone].mode = data.mode])
    /\ lastZone' = [lastZone EXCEPT ![f] = data]
    /\ status' = [status EXCEPT ![f] = HTTP_OK]
    /\ Finish(f, "")
    /\ UNCHANGED <<fn, api_v1, call, regular, polledDev>>

\* Mutant of CommandResponse: the command writes its effect into the Zone
\* object when the hub has accepted it.
CommandResponseApplied(f) ==
    /\ pc[f] = "command"
    /\ SetGraph(f, [Graph EXCEPT !.zones[call[f].zone].mode =
                        IF call[f].op = "set_mode" THEN call[f].arg[1] ELSE "override"])
    /\ status' = [status EXCEPT ![f] = HTTP_OK]
    /\ Finish(f, "")
    /\ UNCHANGED <<fn, api_v1, call, regular, lastZone, polledDev>>

\* set_mode / set_override: the request answers 200; the answer is dropped.
CommandResponse(f) ==
    /\ pc[f] = "command"
    /\ status' = [status EXCEPT ![f] = HTTP_OK]
    /\ Finish(f, "")
    /\ UNCHANGED <<fn, api_v1, graph, call, dirty, regular, lastZone, polledDev>>

(* --------------------------- specification ----------------------------- *)
ZoneRefs == 1 .. Len(zoneHeap)

Next ==
    \E f \in Flows :
        \/ HubUpdate(f)
        \/ \E zone \in ZoneRefs : ZoneUpdate(f, zone)
        \/ \E zone \in ZoneRefs, mode \in ModeArgs : SetMode(f, zone, mode)
        \/ \E zone \in ZoneRefs, duration \in DurationArgs, setpoint \in SetpointArgs :
               SetOverride(f, zone, duration, setpoint)
        \/ Return(f)
        \/ Non200(f)
        \/ ServerDisconnected(f)
        \/ OtherError(f)
        \/ ListResponse(f)
        \/ EmptyList(f)
        \/ \E z \in (IF api_v1 THEN ZoneDicts ELSE V3ZoneDicts) : ZoneRecord(f, z)
        \/ ZonesEnd(f)
        \/ \E d \in (IF api_v1 THEN DeviceDicts ELSE V3Devices) : DeviceRecord(f, d)
        \/ DevicesEnd(f)
        \/ IssueRecord(f)
        \/ IssuesEnd(f)
        \/ \E data \in ZoneDicts : ZoneResponse(f, data)
        \/ CommandResponse(f)

Spec == Init /\ [][Next]_vars

(* -------------------- two update() calls interleaved ------------------- *)
\* Two coroutines call update() on the same Hub.
TwoFlows == {1, 2}
\* The stretches of update() that hold no await: a list has arrived and is
\* gone through.  The event loop runs no other coroutine meanwhile.
Running == Got \cup {"in_zones", "in_devices", "in_issues"}
Turn(f) == \A g \in DOMAIN pc : g # f => pc[g] \notin Running

InitTwo == ConstructedFor(TwoFlows) /\ fnInput = NoInput /\ fnOutput = NoOutput

\* The records the two polls are answered with: every id under every name
\* (a zone may be renamed between two answers), in one mode.
TwoZoneDicts ==
    IF api_v1 THEN {z \in ZoneDicts : z.mode = "off"}
    ELSE {z \in V3ZoneDicts : "iMode" \in DOMAIN z /\ z.iMode = 1}

\* A request fails in one way here (a dropped or refused connection is, to
\* the graph, one longer wait or the same end of the call).
NextTwo ==
    \E f \in TwoFlows :
        \/ Turn(f) /\ HubUpdate(f)
        \/ Turn(f) /\ Return(f)
        \/ Turn(f) /\ OtherError(f)
        \/ Turn(f) /\ ListResponse(f)
        \/ Turn(f) /\ EmptyList(f)
        \/ Turn(f) /\ \E z \in TwoZoneDicts : ZoneRecord(f, z)
        \/ Turn(f) /\ ZonesEnd(f)
        \/ Turn(f) /\ \E d \in (IF api_v1 THEN DeviceDicts ELSE V3Devices) : DeviceRecord(f, d)
        \/ Turn(f) /\ DevicesEnd(f)
        \/ Turn(f) /\ IssueRecord(f)
        \/ Turn(f) /\ IssuesEnd(f)

SpecTwo == InitTwo /\ [][NextTwo]_vars

(* ------------- the extraction and conversion functions alone ---------- *)
\* The most elements of a list, and keys of a dict, of a v3 payload.
MaxNodes == 2
SeqsUpTo(S, n) == UNION {[1 .. k -> S] : k \in 0 .. n}
\* A Python dict as the sequence of its <<key, value>> items, in the order
\* .items() yields them; its keys differ.
IsDict(items) == \A i, j \in DOMAIN items : items[i][1] = items[j][1] => i = j
Values(items) == [i \in DOMAIN items |-> items[i][2]]

\* The addresses of the devices of a payload.
Addrs == {"1", "WeatherData", "7"}
V3Nodes == [addr : Addrs]
\* /v3/zones: a list of zones, each with or without its 'nodes'.
V3ZoneLists ==
    SeqsUpTo([iID : {1}, nodes : SeqsUpTo(V3Nodes, MaxNodes)] \cup [iID : {1}], MaxNodes)
\* /v3/data_manager: childNodes of childNodes, a device under its address.
V3ChildNodes ==
    {[i \in DOMAIN ks |-> <<ks[i], [addr |-> ks[i]]>>] :
        ks \in {k \in SeqsUpTo(Addrs, MaxNodes) : \A i, j \in DOMAIN k : k[i] = k[j] => i = j}}
V3DataManagers ==
    {[childNodes |-> items] :
        items \in {t \in SeqsUpTo({"WeatherData", "4"} \X [childNodes : V3ChildNodes],
                                  MaxNodes) : IsDict(t)}}

\* GeniusHub._extract_devices_from_zones.
RECURSIVE ExtractDevicesFromZones(_)
ExtractDevicesFromZones(zones) ==
    IF zones = <<>> THEN <<>>
    ELSE LET zone == Head(zones)
         IN (IF "nodes" \in DOMAIN zone THEN SelectSeq(zone.nodes, KeepsDevice) ELSE <<>>)
            \o ExtractDevicesFromZones(Tail(zones))

\* GeniusHub._extract_devices_from_data_manager.
RECURSIVE DevicesOfItems(_)
DevicesOfItems(items) ==
    IF items = <<>> THEN <<>>
    ELSE LET k1 == Head(items)[1]
             v1 == Head(items)[2]
         IN (IF k1 # "WeatherData"
             THEN Values(SelectSeq(v1.childNodes, LAMBDA item : item[1] # "1"))
             ELSE <<>>)
            \o DevicesOfItems(Tail(items))
ExtractDevicesFromDataManager(tree) == DevicesOfItems(tree.childNodes)

\* const.kit_types.PIR and const.zone_modes.Footprint (const.py is not among
\* the sources: one bit of the expected-kit mask, and the specification's
\* "footprint=4").
PIR == 4
Footprint == 4
\* flag & bit, bit being a power of two.
BitAnd(flag, bit) == IF (flag \div bit) % 2 = 1 THEN bit ELSE 0

\* A whole raw v3 zone, as far as its mode and its occupancy go; iMode 3 is a
\* code the mode table does not hold.
V3WholeZones ==
    [iID : {1}, strName : {"A"}, iMode : {1, 2, 3, 4, 16},
     iFlagExpectedKit : {0, 3, 4, 7},
     objFootprint : [bIsNight : BOOLEAN, objReactive : [bTriggerOn : BOOLEAN]]]

\* Mutant of Occupied: the night flag is not looked at.
OccupiedByDay(in) ==
    IF BitAnd(in.iFlagExpectedKit, PIR) # 0
    THEN [occupied |-> in.iMode = Footprint /\ in.objFootprint.objReactive.bTriggerOn]
    ELSE EmptyDict

\* _convert_zone, lines 117-128: what it adds to result for the occupancy.
Occupied(in) ==
    IF BitAnd(in.iFlagExpectedKit, PIR) # 0
    THEN LET u == in.iMode = Footprint
             d == in.objFootprint.objReactive.bTriggerOn
             o == in.objFootprint.bIsNight
         IN [occupied |-> u /\ d /\ ~o]
    ELSE EmptyDict

\* _convert_zone on a whole zone: id, name and mode, then the occupancy.
ConvertWholeZone(v1, in) ==
    IF v1 THEN in ELSE ConvertZone(v1, in) @@ Occupied(in)

\* /v3/zones as _extract_issues_from_zones reads it: each zone's name and
\* its 'lstIssues'.
V3Issues == [id : {"zone:using_weather_temp", "node:no_comms"}, level : {1}]
V3IssueZones ==
    SeqsUpTo([strName : Names, lstIssues : SeqsUpTo(V3Issues, MaxNodes)], MaxNodes)

\* issue.update({'zone_name': zone['strName']}) on every issue of a zone: the
\* zone's list afterwards.
StampedIssues(zone) ==
    [i \in DOMAIN zone.lstIssues |-> zone.lstIssues[i] @@ [zone_name |-> zone.strName]]

\* GeniusHub._extract_issues_from_zones: the list it returns.  The issues it
\* appends are the input's own dicts, updated.
RECURSIVE ExtractIssuesFromZones(_)
ExtractIssuesFromZones(zones) ==
    IF zones = <<>> THEN <<>>
    ELSE StampedIssues(Head(zones)) \o ExtractIssuesFromZones(Tail(zones))

\* GeniusHub._extract_issues_from_zones: its input when it returns.
ZonesAfterExtractIssues(zones) ==
    [i \in DOMAIN zones |-> [zones[i] EXCEPT !.lstIssues = StampedIssues(zones[i])]]

FnInputs ==
    [fn : {"_extract_devices_from_zones"}, arg : V3ZoneLists]
    \cup [fn : {"_extract_devices_from_data_manager"}, arg : V3DataManagers]
    \cup [fn : {"_convert_zone"}, arg : V3WholeZones]
    \cup [fn : {"_extract_issues_from_zones"}, arg : V3IssueZones]

InitFn == Constructed /\ fnInput \in FnInputs /\ fnOutput = NoOutput

Returns(value) ==
    /\ fnOutput' = [done |-> TRUE, raised |-> "", value |-> value]
    /\ UNCHANGED <<fnInput, api_v1, graph, pc, attempt, sessions, call, req, result,
                   status, dirty, regular, lastZone, polledDev>>

Raises(err) ==
    /\ fnOutput' = [done |-> TRUE, raised |-> err]
    /\ UNCHANGED <<fnInput, api_v1, graph, pc, attempt, sessions, call, req, result,
                   status, dirty, regular, lastZone, polledDev>>

ConvertZoneCall ==
    /\ fnInput.fn = "_convert_zone" /\ ~fnOutput.done
    /\ IF ConvertZoneRaises(api_v1, fnInput.arg) THEN Raises("KeyError")
       ELSE Returns(ConvertWholeZone(api_v1, fnInput.arg))

\* The function returns value, having changed its argument into arg.
ReturnsChanging(value, arg) ==
    /\ fnOutput' = [done |-> TRUE, raised |-> "", value |-> value, arg |-> arg]
    /\ UNCHANGED <<fnInput, api_v1, graph, pc, attempt, sessions, call, req, result,
                   status, dirty, regular, lastZone, polledDev>>

ExtractIssues ==
    /\ fnInput.fn = "_extract_issues_from_zones" /\ ~fnOutput.done
    /\ ReturnsChanging(ExtractIssuesFromZones(fnInput.arg),
                       ZonesAfterExtractIssues(fnInput.arg))

ExtractFromZones ==
    /\ fnInput.fn = "_extract_devices_from_zones" /\ ~fnOutput.done
    /\ Returns(ExtractDevicesFromZones(fnInput.arg))

ExtractFromDataManager ==
    /\ fnInput.fn = "_extract_devices_from_data_manager" /\ ~fnOutput.done
    /\ Returns(ExtractDevicesFromDataManager(fnInput.arg))

NextFn ==
    ConvertZoneCall \/ ExtractFromZones \/ ExtractFromDataManager \/ ExtractIssues

SpecFn == InitFn /\ [][NextFn]_vars

(* ------------------------------ the claims ----------------------------- *)
\* The zones that hold device id d in their device map.
ZonesHolding(d) == {z \in ZoneRefs : d \in DOMAIN zoneHeap[z].device_by_id}
\* update() of flow f has returned / has raised.
Updated(f) == pc[f] = "done" /\ call[f].op = "update" /\ result[f] = "ok"
UpdateFailed(f) == pc[f] = "done" /\ call[f].op = "update" /\ result[f] # "ok"
Range(d) == {d[k] : k \in DOMAIN d}

\* C1: a registered zone id (device id) refers to the same object after every
\* later step of any poll, and no object is created for an id that has one:
\* the Hub holds exactly one Zone (Device) object per registered id.
C1_IdentityKept ==
    [][/\ \A id \in DOMAIN hub.zone_by_id :
             id \in DOMAIN hub'.zone_by_id /\ hub'.zone_by_id[id] = hub.zone_by_id[id]
       /\ \A id \in DOMAIN hub.device_by_id :
             id \in DOMAIN hub'.device_by_id /\ hub'.device_by_id[id] = hub.device_by_id[id]
       /\ Len(zoneHeap') = Cardinality(DOMAIN hub'.zone_by_id)
       /\ Len(deviceHeap') = Cardinality(DOMAIN hub'.device_by_id)]_vars

\* C1's case: an update() has returned that read zones and devices and created
\* nothing, every id it read being registered already.
C1_Witness ==
    \E f \in Flows : Updated(f) /\ ~dirty[f] /\ lastZone[f] # NoRecord

\* C2: after an update() that returned and read only records of ids that were
\* registered before, the Zone object of the id of the last zone record read
\* has the name and the mode of that record.
C2_FieldsFollowPoll ==
    \A f \in Flows :
        (Updated(f) /\ ~dirty[f]) =>
            LET obj == zoneHeap[hub.zone_by_id[lastZone[f].id]]
            IN obj.name = lastZone[f].name /\ obj.mode = lastZone[f].mode

\* C3: an update() that raised has left the graph as it was when it began.
C3_FailedPollLeavesGraph ==
    \A f \in Flows : UpdateFailed(f) => ~dirty[f]

\* C4: in every state zone_by_name and zone_by_id index the same set of Zone
\* objects.
C4_SameObjectSet == Range(hub.zone_by_name) = Range(hub.zone_by_id)

\* C5: after an update() that returned, a device is in a zone's device map if
\* and only if that zone is the one the device's latest record names (stated
\* for the polls that found every zone and device registered and in the map
\* its record names).
C5_DeviceMapFollowsRecord ==
    \A f \in Flows :
        (Updated(f) /\ ~dirty[f]) =>
            \A d \in DOMAIN hub.device_by_id : \A z \in ZoneRefs :
                d \in DOMAIN zoneHeap[z].device_by_id
                    <=> /\ polledDev[d].zname \in DOMAIN hub.zone_by_name
                        /\ hub.zone_by_name[polledDev[d].zname] = z

\* C6: after an update() that began on an empty graph and read zone records
\* of distinct ids and names and one record per device, each naming one of
\* those zones, the poll has registered devices, and every device is in the
\* map of exactly one zone, the one its record names.
C6_OneZonePerDevice ==
    \A f \in Flows :
        (Updated(f) /\ regular[f]) =>
            /\ DOMAIN hub.device_by_id # {}
            /\ \A d \in DOMAIN hub.device_by_id :
                  ZonesHolding(d) = {hub.zone_by_name[polledDev[d].zname]}

\* C6's case: such a poll has returned, with two zones and a device.
C6_Witness ==
    \E f \in Flows :
        Updated(f) /\ regular[f] /\ Len(zoneHeap) = Cardinality(ZoneIds)
                   /\ DOMAIN hub.device_by_id # {}

\* C7: a device whose latest record names a zone that is not registered is
\* registered with the Hub and is in no zone's device map.
C7_UnknownZoneHubOnly ==
    \A d \in DOMAIN polledDev :
        (polledDev[d].zname # None /\ polledDev[d].zname \notin DOMAIN hub.zone_by_name)
            => d \in DOMAIN hub.device_by_id /\ ZonesHolding(d) = {}

\* C8: from one state to the next the key sets of zone_by_id, zone_by_name,
\* device_by_id and of every zone's device_by_id only grow.
C8_NeverRemoves ==
    [][/\ DOMAIN hub.zone_by_id \subseteq DOMAIN hub'.zone_by_id
       /\ DOMAIN hub.zone_by_name \subseteq DOMAIN hub'.zone_by_name
       /\ DOMAIN hub.device_by_id \subseteq DOMAIN hub'.device_by_id
       /\ \A z \in ZoneRefs :
             /\ z \in DOMAIN zoneHeap'
             /\ DOMAIN zoneHeap[z].device_by_id \subseteq DOMAIN zoneHeap'[z].device_by_id]_vars

\* C8's case: a device the latest poll reports as unassigned is still in the
\* map of the zone an earlier poll put it in.
C8_Witness ==
    \E d \in DOMAIN polledDev : polledDev[d].zname = None /\ ZonesHolding(d) # {}

\* C9: a request is attempted at most twice; the second attempt is made only
\* when the first one was dropped and is the same request; a dropped
\* connection is raised to the caller only from the second attempt.
C9_OneRetry ==
    [][\A f \in Flows :
          /\ attempt'[f] \in {0, 1, 2}
          /\ (attempt'[f] = 2 /\ attempt[f] # 2)
                => /\ attempt[f] = 1
                   /\ pc[f] \in Awaiting
                   /\ pc'[f] = pc[f]
                   /\ req'[f] = req[f]
          /\ (pc[f] \in Awaiting /\ attempt[f] = 1)
                => result'[f] # "ServerDisconnectedError"
          /\ (result'[f] = "ServerDisconnectedError" /\ result[f] = "")
                => attempt[f] = 2 /\ pc'[f] = "done"]_vars

\* C9's case: both attempts of a request were dropped and the call raised.
C9_Witness ==
    \E f \in Flows : result[f] = "ServerDisconnectedError" /\ attempt[f] = 2

\* C10: set_mode with an unknown mode, and set_override with a negative
\* duration or a setpoint outside [4, 35], send no request and raise
\* InvalidArgument.
ValidModes == {"off", "timer", "footprint", "override"}
InvalidCall(c) ==
    \/ c.op = "set_mode" /\ c.arg[1] \notin ValidModes
    \/ c.op = "set_override" /\ (c.arg[1] < 0 \/ c.arg[2] < 4 \/ c.arg[2] > 35)
C10_InvalidRejected ==
    \A f \in Flows :
        InvalidCall(call[f]) =>
            /\ attempt[f] = 0
            /\ pc[f] = "done" => result[f] = "InvalidArgument"

\* C11: the request of set_mode(mode), mode being one of the four mode names,
\* is on v3 PATCH zone/{id} with the body {iMode: the numeric code of mode}
\* and on v1 PUT zones/{id}/mode with the mode name as body.
ModeCode(mode) == CHOOSE code \in DOMAIN IMODE_TO_MODE : IMODE_TO_MODE[code] = mode
C11_SetModeRequest ==
    \A f \in Flows :
        (call[f].op = "set_mode" /\ call[f].arg[1] \in ValidModes) =>
            LET id == zoneHeap[call[f].zone].id
                mode == call[f].arg[1]
            IN req[f] = IF api_v1
                        THEN [method |-> "PUT", url |-> <<"zones", id, "mode">>,
                              body |-> Str(mode)]
                        ELSE [method |-> "PATCH", url |-> <<"zone", id>>,
                              body |-> [iMode |-> Num(ModeCode(mode))]]

\* C12: no step of set_mode or set_override changes the Hub's maps and lists
\* or any Zone or Device object, the commanded zone's mode included, and the
\* only request such a call sends is its command: it polls nothing.
Commands == {"set_mode", "set_override"}
C12_CommandsLeaveGraph ==
    [][\A f \in Flows :
          call'[f].op \in Commands =>
              /\ graph' = graph
              /\ pc'[f] \in {"command", "done"}
              /\ req'[f].method \in {"PUT", "POST", "PATCH"}]_vars

\* C12's case: set_mode has returned, asking for a mode the zone's object
\* does not have.
C12_Witness ==
    \E f \in Flows :
        /\ call[f].op = "set_mode" /\ pc[f] = "done" /\ result[f] = "ok"
        /\ zoneHeap[call[f].zone].mode # call[f].arg[1]

\* C13: within one update() the steps go zones, then devices, then issues and
\* never back: a zone is read or registered only in the zones loop and a
\* device only in the devices loop, and from the end of the zones loop on
\* every zone record the call has read is registered in the Hub.
Rank(stage) ==
    CASE stage \in {"zones", "got_zones", "in_zones"} -> 1
      [] stage \in {"devices", "got_devices", "in_devices"} -> 2
      [] stage \in {"issues", "got_issues", "in_issues"} -> 3
      [] OTHER -> 0
C13_ZonesDevicesIssues ==
    [][\A f \in Flows :
          /\ (Rank(pc[f]) > 0 /\ Rank(pc'[f]) > 0) => Rank(pc'[f]) >= Rank(pc[f])
          /\ (lastZone'[f] # lastZone[f] /\ call[f].op # "zone_update" /\ pc'[f] # "idle")
                => Rank(pc[f]) = 1 /\ Rank(pc'[f]) = 1
          /\ (hub'.zone_objs # hub.zone_objs) => Rank(pc[f]) = 1 /\ Rank(pc'[f]) = 1
          /\ (polledDev' # polledDev \/ hub'.device_objs # hub.device_objs)
                => Rank(pc[f]) = 2 /\ pc'[f] \in {"in_devices", "done"}
          /\ (Rank(pc'[f]) >= 2 /\ lastZone'[f] # NoRecord)
                => lastZone'[f].id \in DOMAIN hub'.zone_by_id]_vars

\* C13's case: an update() is in its issues loop, its zones and devices read.
C13_Witness ==
    \E f \in Flows :
        /\ call[f].op = "update" /\ pc[f] = "in_issues"
        /\ lastZone[f] # NoRecord /\ DOMAIN hub.device_by_id # {}

\* C14: when a request is answered with a status other than 200, on its
\* first attempt or on its second, the call ends there raising an error: the
\* step that takes the answer, and every step until the caller has the
\* error, leaves the graph and the records read as they are.
C14_Non200Fails ==
    [][\A f \in Flows :
          status'[f] \notin {0, HTTP_OK} =>
              /\ pc'[f] = "done"
              /\ result'[f] = "AssertionError"
              /\ graph' = graph
              /\ lastZone' = lastZone /\ polledDev' = polledDev]_vars

\* C14's case: the second attempt of a request of update() was answered with
\* a status other than 200.
C14_Witness ==
    \E f \in Flows :
        call[f].op = "update" /\ attempt[f] = 2 /\ status[f] \in NotOK

\* C15: the list extracted from a v3 payload, from the zones' node lists and
\* from the data_manager tree, is the list of the payload's devices whose
\* address is neither "1" nor "WeatherData".
Reserved == {"1", "WeatherData"}
RECURSIVE Flatten(_)
Flatten(lists) == IF lists = <<>> THEN <<>> ELSE Head(lists) \o Flatten(Tail(lists))
DevicesIn(in) ==
    IF in.fn = "_extract_devices_from_zones"
    THEN Flatten([i \in DOMAIN in.arg |->
                    IF "nodes" \in DOMAIN in.arg[i] THEN in.arg[i].nodes ELSE <<>>])
    ELSE Flatten([i \in DOMAIN in.arg.childNodes |->
                    Values(in.arg.childNodes[i][2].childNodes)])
Extractions == {"_extract_devices_from_zones", "_extract_devices_from_data_manager"}
C15_ExtractsUnreserved ==
    (fnInput.fn \in Extractions /\ fnOutput.done) =>
        fnOutput.value = SelectSeq(DevicesIn(fnInput), LAMBDA d : d.addr \notin Reserved)

\* C16: a v3 zone that _convert_zone has converted has, when the PIR bit of
\* its expected-kit mask is set, occupied = TRUE exactly when its mode is
\* Footprint, its trigger-on flag is set and its night flag is not, and
\* occupied = FALSE otherwise; when the bit is clear it has no occupied field.
Converted == fnInput.fn = "_convert_zone" /\ ~api_v1 /\ fnOutput.done
PIRSet(in) == (in.iFlagExpectedKit \div PIR) % 2 = 1
C16_OccupiedDerivation ==
    (Converted /\ fnOutput.raised = "") =>
        LET in == fnInput.arg
            out == fnOutput.value
        IN IF PIRSet(in)
           THEN /\ "occupied" \in DOMAIN out
                /\ out.occupied \in BOOLEAN
                /\ out.occupied <=> /\ in.iMode = Footprint
                                    /\ in.objFootprint.objReactive.bTriggerOn
                                    /\ ~in.objFootprint.bIsNight
           ELSE "occupied" \notin DOMAIN out

\* C16's case: a zone with the PIR bit among others, in footprint mode and
\* triggered, at night, was converted.
C16_Witness ==
    /\ Converted /\ fnOutput.raised = ""
    /\ fnInput.arg.iFlagExpectedKit = 7 /\ fnInput.arg.iMode = Footprint
    /\ fnInput.arg.objFootprint.objReactive.bTriggerOn /\ fnInput.arg.objFootprint.bIsNight
    /\ fnOutput.value.occupied = FALSE

\* C17: _convert_zone converts a v3 zone of any mode code without failing:
\* the mode is the table's name for the codes 1, 2, 4 and 16 and "unknown"
\* for any other code.
C17_ModeMapping ==
    Converted =>
        /\ fnOutput.raised = ""
        /\ fnOutput.value.mode =
              CASE fnInput.arg.iMode = 1 -> "off"
                [] fnInput.arg.iMode = 2 -> "timer"
                [] fnInput.arg.iMode = 4 -> "footprint"
                [] fnInput.arg.iMode = 16 -> "override"
                [] OTHER -> "unknown"

\* C18: a turn of the devices loop on a record that names no zone does not
\* raise, leaves every zone's device map and list as they are, and leaves the
\* device registered in the Hub's device_by_id.
DeviceStep(f) ==
    /\ pc[f] \in {"got_devices", "in_devices"}
    /\ pc'[f] = "in_devices" \/ result'[f] = "KeyError"
C18_UnassignedHubOnly ==
    [][\A f \in Flows :
          (DeviceStep(f) /\ \A d \in DOMAIN polledDev' : polledDev'[d].zname = None) =>
              /\ pc'[f] = "in_devices"
              /\ zoneHeap' = zoneHeap
              /\ DOMAIN polledDev' \subseteq DOMAIN hub'.device_by_id]_vars

\* C18's case: an update() has returned with the device polled as unassigned,
\* which is in the Hub's map and in no zone's.
C18_Witness ==
    \E f \in Flows : \E d \in DOMAIN polledDev :
        /\ Updated(f) /\ polledDev[d].zname = None
        /\ d \in DOMAIN hub.device_by_id /\ ZonesHolding(d) = {}

\* C19: in every state, every device id in a zone's device map is in the
\* Hub's device map, and both maps hold the same object under it.
C19_ZoneDevicesAreHubDevices ==
    \A z \in ZoneRefs : \A d \in DOMAIN zoneHeap[z].device_by_id :
        /\ d \in DOMAIN hub.device_by_id
        /\ hub.device_by_id[d] = zoneHeap[z].device_by_id[d]

\* C19's case: a device is in the maps of two zones.
C19_Witness ==
    \E d \in DOMAIN hub.device_by_id : Cardinality(ZonesHolding(d)) = 2

\* C20: in every state the objects of a list have different ids, and a list
\* holds each value of its id map once and nothing else: hub.zone_objs for
\* hub.zone_by_id, hub.device_objs for hub.device_by_id and each zone's
\* device_objs for its device_by_id.
SeqRange(q) == {q[i] : i \in DOMAIN q}
ListsMap(objs, by_id) ==
    SeqRange(objs) = Range(by_id) /\ Len(objs) = Cardinality(DOMAIN by_id)
C20_ListsAgreeWithMaps ==
    /\ ListsMap(hub.zone_objs, hub.zone_by_id)
    /\ ListsMap(hub.device_objs, hub.device_by_id)
    /\ \A z \in ZoneRefs : ListsMap(zoneHeap[z].device_objs, zoneHeap[z].device_by_id)
    /\ \A i, j \in DOMAIN hub.zone_objs :
          zoneHeap[hub.zone_objs[i]].id = zoneHeap[hub.zone_objs[j]].id => i = j
    /\ \A i, j \in DOMAIN hub.device_objs :
          deviceHeap[hub.device_objs[i]].id = deviceHeap[hub.device_objs[j]].id => i = j
    /\ \A id \in DOMAIN hub.zone_by_id : zoneHeap[hub.zone_by_id[id]].id = id
    /\ \A id \in DOMAIN hub.device_by_id : deviceHeap[hub.device_by_id[id]].id = id

\* C20's case: two zones and a device are registered, the device in a zone,
\* and a second poll has read them again.
C20_Witness ==
    \E f \in Flows :
        /\ Updated(f) /\ ~dirty[f]
        /\ Len(hub.zone_objs) = 2 /\ Len(hub.device_objs) = 1
        /\ \E z \in ZoneRefs : Len(zoneHeap[z].device_objs) = 1

\* C21: _extract_issues_from_zones returns the issues of every zone of its
\* input, in order, each with the name of its zone as zone_name, and its
\* input is afterwards what it was when the function was called.
C21_ExtractIssuesPure ==
    (fnInput.fn = "_extract_issues_from_zones" /\ fnOutput.done) =>
        /\ fnOutput.value =
              Flatten([i \in DOMAIN fnInput.arg |->
                         [k \in DOMAIN fnInput.arg[i].lstIssues |->
                             [id |-> fnInput.arg[i].lstIssues[k].id,
                              level |-> fnInput.arg[i].lstIssues[k].level,
                              zone_name |-> fnInput.arg[i].strName]]])
        /\ fnOutput.arg = fnInput.arg

\* C22: with two update() calls on one Hub interleaved at their awaits, in
\* every state no two Zone objects and no two Device objects have the same
\* id, every object is registered under its id, and hub.zone_objs,
\* hub.device_objs and each zone's device_objs hold no object twice.
NoDuplicates(q) == \A i, j \in DOMAIN q : q[i] = q[j] => i = j
C22_UniqueWhenInterleaved ==
    /\ \A i, j \in DOMAIN zoneHeap : zoneHeap[i].id = zoneHeap[j].id => i = j
    /\ \A i, j \in DOMAIN deviceHeap : deviceHeap[i].id = deviceHeap[j].id => i = j
    /\ \A i \in DOMAIN zoneHeap :
          zoneHeap[i].id \in DOMAIN hub.zone_by_id /\ hub.zone_by_id[zoneHeap[i].id] = i
    /\ \A i \in DOMAIN deviceHeap :
          deviceHeap[i].id \in DOMAIN hub.device_by_id /\ hub.device_by_id[deviceHeap[i].id] = i
    /\ NoDuplicates(hub.zone_objs) /\ Len(hub.zone_objs) = Len(zoneHeap)
    /\ NoDuplicates(hub.device_objs) /\ Len(hub.device_objs) = Len(deviceHeap)
    /\ \A z \in ZoneRefs : NoDuplicates(zoneHeap[z].device_objs)

\* C22's case: both polls are under way on v1, one waits for its issues and
\* the other for its devices, and the last zone record each has read has the
\* same id under different names; two zones and a device are registered.
C22_Witness ==
    /\ api_v1
    /\ call[1].op = "update" /\ call[2].op = "update"
    /\ pc[1] = "issues" /\ pc[2] = "devices"
    /\ lastZone[1] # NoRecord /\ lastZone[2] # NoRecord
    /\ lastZone[1].id = lastZone[2].id /\ lastZone[1].name # lastZone[2].name
    /\ Len(zoneHeap) = 2 /\ Len(deviceHeap) = 1

\* C23: whenever a flow's _request has returned or raised (the flow is not
\* waiting for an answer), no session that this _request opened in its
\* handler of a dropped connection is still open.
C23_SessionsClosed ==
    \A f \in Flows : pc[f] \notin Awaiting => sessions[f] = 0

\* C24: when an update() has returned, every device held in a zone's
\* device_by_id has that zone as its assignedZone, and a device whose
\* assignedZone is None is in no zone's device_by_id.
C24_AssignedZoneAgrees ==
    (\E f \in Flows : Updated(f)) =>
        /\ \A z \in ZoneRefs : \A id \in DOMAIN zoneHeap[z].device_by_id :
              deviceHeap[zoneHeap[z].device_by_id[id]].assignedZone = z
        /\ \A d \in DOMAIN deviceHeap :
              deviceHeap[d].assignedZone = NoZone => ZonesHolding(deviceHeap[d].id) = {}

====
